---- MODULE Spec2Model ----
(***************************************************************************)
(* A model of scripts/paper_processor.py and of src/main.py with           *)
(* src/query_processor.py.  Of paper_processor.py: the response parser     *)
(* (PaperProcessor._parse_response), the rolling token-rate limiter        *)
(* (_cleanup_old_usage, _get_current_token_usage, _wait_for_rate_limit,    *)
(* _record_token_usage), the cache (FileCache), the result store           *)
(* (CSVStorage) and the orchestration (process_paper, process_directory).  *)
(*                                                                         *)
(* Of main.py: the loop over the query sets and QueryProcessor's           *)
(* load_from_cache, fetch_all_data, get_page and save_to_cache.            *)
(*                                                                         *)
(* Of scripts/LLM_gcr_paper_extractor.py: its batch loop over the PDFs.    *)
(*                                                                         *)
(* Six specifications share the module:                                    *)
(*   SpecParse    the parser applied to a bounded family of response texts *)
(*   SpecLimiter  the limiter driven by an arbitrary caller and clock      *)
(*   Spec         process_directory runs over a directory of PDFs          *)
(*   SpecFetch    one run of main.py over its query sets                   *)
(*   SpecKey      the cache key of process_paper on two texts and queries  *)
(*   SpecExtractor  the batch loop of LLM_gcr_paper_extractor.py           *)
(***************************************************************************)
EXTENDS Integers, Sequences, FiniteSets, TLC

VARIABLES
    \* ---- parser (SpecParse)
    response,       \* the response text handed to _parse_response
    record,         \* the PaperMetadata it returned
    ppc,            \* "ready" before the call, "parsed" after it
    inspec,         \* how `response` was put together (ghost, for the properties)
    \* ---- rate limiter (SpecLimiter, Spec)
    token_usage,    \* self.token_usage: the list of (timestamp, token_count)
    now,            \* datetime.datetime.now(), in seconds since the process started
    lpc,            \* where _wait_for_rate_limit stands: idle, check, sleeping, woke, returned
    required,       \* its argument required_tokens
    sleeps,         \* sleep_time.sleep calls made by the current call (ghost)
    recorded,       \* every sample recorded by the caller of SpecLimiter, never pruned (ghost)
    entryFresh,     \* the list held a sample younger than 60 s when the call began (ghost)
    \* ---- cache, result store and orchestration (Spec)
    cache,          \* FileCache.cache: key -> response text, None when absent
    cache_file,     \* the JSON file FileCache writes
    store,          \* the CSV file of CSVStorage: its rows
    doc_len,        \* the token count of the text of each PDF of the directory
    service_limit,  \* the most tokens of text the LLM service takes in one call
    pc,             \* where process_directory / process_paper stand
    runs,           \* process_directory calls so far
    pdf_files,      \* list(directory.glob("*.pdf")) of the current run
    idx,            \* the position of the for loop in pdf_files
    results,        \* the list `results` of process_directory
    current_text,   \* current_text of process_paper
    current_query,  \* self.current_query
    attempts,       \* token counts sent to the client by this process_paper call (ghost)
    called,         \* the PDFs whose full text was ever sent to the client (ghost)
    repeat,         \* a text was sent to the client a second time (ghost)
    failedDocs,     \* PDFs of this run whose client call raised a non-overflow failure (ghost)
    ncalls,         \* client calls of this process_paper call, 2 standing for more (ghost)
    prevCalls,      \* per PDF: client calls of its last finished process_paper (ghost)
    lastDone,       \* the last finished process_paper call (ghost)
    \* ---- src/main.py and QueryProcessor (SpecFetch)
    force_refresh,  \* args.force_refresh
    cache_files,    \* per query name: the rows of <name>_results.csv, None when no file
    qi,             \* the position of the for loop of main in config["query_sets"]
    fpc,            \* where main stands: main, fetching, done, failed
    cursor,         \* cursor of fetch_all_data: the page asked next, 0 when falsy
    fetched_results, \* the list all_results of fetch_all_data
    all_results,    \* the dict all_results of main
    page_requests,  \* per query name: get_page calls of this run (ghost)
    \* ---- the cache key of process_paper on two calls (SpecKey)
    first_call,     \* text and query of a process_paper call that misses
    second_call,    \* text and query of the process_paper call after it
    key_cache,      \* FileCache.cache between the two
    second_hit,     \* what self.cache.get(cache_key) gives the second call
    kpc,            \* first, second, done
    \* ---- the batch loop of scripts/LLM_gcr_paper_extractor.py (SpecExtractor)
    x_pdf_files,    \* pdf_files: list(Path(pdf_dir).glob('*.pdf'))
    x_idx,          \* the position of the for loop in pdf_files
    xpc,            \* loop, calling, sleeping, done
    x_cache,        \* cache: the PDFs whose response it holds
    processed_files, \* the filenames of the rows loaded from the output file
    x_results,      \* results: filename and whether the row is an error row
    x_last,         \* how the latest process_with_claude call ended (ghost)
    x_slept         \* sleep_time.sleep(60) ran since that call ended (ghost)

parseVars == <<response, record, ppc, inspec>>
limVars == <<token_usage, now, lpc, required, sleeps, recorded, entryFresh>>
pipeVars ==
    <<cache, cache_file, store, doc_len, service_limit, pc, runs, pdf_files, idx, results,
      current_text, current_query, attempts, called, repeat, failedDocs,
      ncalls, prevCalls, lastDone>>
fetchVars ==
    <<force_refresh, cache_files, qi, fpc, cursor, fetched_results, all_results,
      page_requests>>
keyVars == <<first_call, second_call, key_cache, second_hit, kpc>>
extractVars == <<x_pdf_files, x_idx, xpc, x_cache, processed_files, x_results, x_last, x_slept>>
vars == <<parseVars, limVars, pipeVars, fetchVars, keyVars, extractVars>>

(***************************************************************************)
(* Optional values: Python's None and a value that is set.                 *)
(***************************************************************************)
None == [some |-> FALSE, val |-> <<>>]
Some(v) == [some |-> TRUE, val |-> v]

(***************************************************************************)
(* Text.  A text is a sequence of symbols.  A symbol is one character, or  *)
(* one of two words that stand for a phrase of the prompt written in mixed *)
(* case; the words hold no comma, quote or white space.                    *)
(***************************************************************************)
Comma == ","
Quote == "\""
NL == "\n"
CR == "\r"
SP == " "
RQWord == "Research Question"
CFWord == "CSV Format"

\* str.lower() on one symbol
Lower(c) ==
    IF c = RQWord THEN "research question"
    ELSE IF c = CFWord THEN "csv format"
    ELSE IF c = "Token" THEN "token"
    ELSE c

\* `phrase in line.lower()`
ContainsLower(line, phrase) == \E i \in DOMAIN line : Lower(line[i]) = phrase

\* str.strip(): leading and trailing white space removed
IsSpace(c) == c \in {SP, NL, CR}

Strip(s) ==
    LET keep == {i \in DOMAIN s : ~IsSpace(s[i])}
    IN  IF keep = {} THEN <<>>
        ELSE SubSeq(s, CHOOSE i \in keep : \A j \in keep : i <= j,
                       CHOOSE i \in keep : \A j \in keep : i >= j)

\* str.split('\n'): one line more than there are '\n', always at least one
SplitLines(s) ==
    LET nl == {i \in DOMAIN s : s[i] = NL}
        n == Cardinality(nl)
        cut(j) == IF j = 0 THEN 0
                  ELSE IF j = n + 1 THEN Len(s) + 1
                  ELSE CHOOSE q \in nl : Cardinality({r \in nl : r < q}) = j - 1
    IN  [j \in 1..(n + 1) |-> SubSeq(s, cut(j - 1) + 1, cut(j) - 1)]

\* line.count(',')
CountCommas(line) == Cardinality({i \in DOMAIN line : line[i] = Comma})

(***************************************************************************)
(* csv.reader(StringIO(csv_line)) and next(reader), default dialect:       *)
(* delimiter ',', quotechar '"', doublequote, not strict.  The line holds  *)
(* no '\n'.  The result is [ok, row]; ok = FALSE is csv.Error.             *)
(***************************************************************************)
CsvStart == [ok |-> TRUE, st |-> "START_RECORD", field |-> <<>>, row |-> <<>>]

\* parse_process_char: the reader p after the character c
CsvStep(p, c) ==
    LET st == IF p.st = "START_RECORD" /\ c # CR THEN "START_FIELD" ELSE p.st
        go(nst, nfield, nrow) == [ok |-> TRUE, st |-> nst, field |-> nfield, row |-> nrow]
    IN  CASE st = "START_RECORD" -> go("EAT_CRNL", <<>>, p.row)
          [] st = "START_FIELD" ->
                IF c = CR THEN go("EAT_CRNL", <<>>, Append(p.row, <<>>))
                ELSE IF c = Quote THEN go("IN_QUOTED_FIELD", <<>>, p.row)
                ELSE IF c = Comma THEN go("START_FIELD", <<>>, Append(p.row, <<>>))
                ELSE go("IN_FIELD", <<c>>, p.row)
          [] st = "IN_FIELD" ->
                IF c = CR THEN go("EAT_CRNL", <<>>, Append(p.row, p.field))
                ELSE IF c = Comma THEN go("START_FIELD", <<>>, Append(p.row, p.field))
                ELSE go("IN_FIELD", Append(p.field, c), p.row)
          [] st = "IN_QUOTED_FIELD" ->
                IF c = Quote THEN go("QUOTE_IN_QUOTED_FIELD", p.field, p.row)
                ELSE go("IN_QUOTED_FIELD", Append(p.field, c), p.row)
          [] st = "QUOTE_IN_QUOTED_FIELD" ->
                IF c = Quote THEN go("IN_QUOTED_FIELD", Append(p.field, Quote), p.row)
                ELSE IF c = Comma THEN go("START_FIELD", <<>>, Append(p.row, p.field))
                ELSE IF c = CR THEN go("EAT_CRNL", <<>>, Append(p.row, p.field))
                ELSE go("IN_FIELD", Append(p.field, c), p.row)
          [] OTHER ->  \* EAT_CRNL
                IF c = CR THEN go("EAT_CRNL", <<>>, p.row)
                ELSE [ok |-> FALSE, st |-> st, field |-> <<>>, row |-> <<>>]

\* the reader after the characters i.. of the line s
RECURSIVE CsvScan(_, _, _)
CsvScan(s, i, p) ==
    IF ~p.ok \/ i > Len(s) THEN p ELSE CsvScan(s, i + 1, CsvStep(p, s[i]))

\* the end of the line, then the end of the input
CsvEnd(p) ==
    IF p.st \in {"START_RECORD", "EAT_CRNL"} THEN p.row ELSE Append(p.row, p.field)

CsvRow(line) ==
    LET p == CsvScan(line, 1, CsvStart)
    IN  IF p.ok THEN [ok |-> TRUE, row |-> CsvEnd(p)] ELSE [ok |-> FALSE, row |-> <<>>]

(***************************************************************************)
(* PaperMetadata: filename, the 15 extraction fields, error and            *)
(* current_query; every field but filename defaults to None.               *)
(***************************************************************************)
FieldNames ==
    << "paper_citation", "publication_type", "gcr_types", "geographic_focus",
       "geographic_factors", "institutional_factors", "infrastructural_factors",
       "other_resilience_factors", "study_approach", "resilience_phase",
       "main_resilience_factors", "resilience_tradeoffs",
       "vulnerable_resilient_regions", "overall_relevance", "evidence_gaps" >>

NumFields == Len(FieldNames)

FieldSet == {FieldNames[i] : i \in 1..NumFields}

MetadataKeys == {"filename", "error", "current_query"} \cup FieldSet

FieldIndex(k) == CHOOSE i \in 1..NumFields : FieldNames[i] = k

\* PaperMetadata(filename=..., <fields from row>, current_query=...)
PaperMetadata(filename, row, error, cq) ==
    [k \in MetadataKeys |->
        IF k = "filename" THEN Some(filename)   \* a text, as every value is
        ELSE IF k = "error" THEN error
        ELSE IF k = "current_query" THEN cq
        ELSE IF Len(row) > FieldIndex(k) - 1 THEN Some(row[FieldIndex(k)])
        ELSE None]

\* PaperMetadata.to_dict(): the fields that are not None, without current_query
to_dict(r) == {k \in MetadataKeys \ {"current_query"} : r[k].some}

(***************************************************************************)
(* PaperProcessor._parse_response                                          *)
(***************************************************************************)
\* the least number of commas of a line taken for the CSV row
MinCommas == 10

NoCsvLineMsg == <<"No valid CSV line found in response">>
CsvErrorMsg == <<"new-line character seen in unquoted field">>

\* a line that holds a part of the prompt is skipped
IsPromptLine(line) ==
    ContainsLower(line, "research question") \/ ContainsLower(line, "csv format")

\* IsCsvCandidate with the threshold one too low
IsCsvCandidate_OneLess(line) ==
    ~IsPromptLine(line) /\ CountCommas(line) >= MinCommas - 1

\* IsCsvCandidate taking any line with a comma
IsCsvCandidate_AnyComma(line) == ~IsPromptLine(line) /\ CountCommas(line) >= 1

\* a line taken for the CSV row
IsCsvCandidate(line) == ~IsPromptLine(line) /\ CountCommas(line) >= MinCommas

\* SelectLine without the break: the last candidate line
SelectLine_NoBreak(lines) ==
    IF \E i \in DOMAIN lines : IsCsvCandidate(lines[i])
    THEN CHOOSE i \in DOMAIN lines :
            /\ IsCsvCandidate(lines[i])
            /\ \A j \in (i + 1)..Len(lines) : ~IsCsvCandidate(lines[j])
    ELSE 0

\* the for loop: the index of the first candidate line, 0 when there is none
SelectLine(lines) ==
    IF \E i \in DOMAIN lines : IsCsvCandidate(lines[i])
    THEN CHOOSE i \in DOMAIN lines :
            /\ IsCsvCandidate(lines[i])
            /\ \A j \in 1..(i - 1) : ~IsCsvCandidate(lines[j])
    ELSE 0

\* parse_response without `if not csv_line: raise ValueError`
parse_response_NoRaise(resp, filename, cq) ==
    LET lines == SplitLines(Strip(resp))
        sel == SelectLine(lines)
    IN  IF sel = 0
        THEN PaperMetadata(filename, <<>>, None, cq)
        ELSE PaperMetadata(filename, CsvRow(lines[sel]).row, None, cq)

\* parse_response reading row[i] without the test of len(row)
parse_response_ShortRowFails(resp, filename, cq) ==
    LET lines == SplitLines(Strip(resp))
        sel == SelectLine(lines)
    IN  IF sel = 0 \/ lines[sel] = <<>>
        THEN PaperMetadata(filename, <<>>, Some(NoCsvLineMsg), None)
        ELSE LET parsed == CsvRow(lines[sel])
             IN  IF parsed.ok /\ Len(parsed.row) >= NumFields
                 THEN PaperMetadata(filename, parsed.row, None, cq)
                 ELSE PaperMetadata(filename, <<>>, Some(CsvErrorMsg), None)

\* except (ValueError, IndexError, csv.Error) in _parse_response
ParseCaught == {"ValueError", "IndexError", "csv.Error"}

\* the class of the exception raised inside the try of _parse_response, "" when
\* the try runs to its return
RaisedInParse(resp) ==
    LET lines == SplitLines(Strip(resp))
        sel == SelectLine(lines)
    IN  IF sel = 0 \/ lines[sel] = <<>> THEN "ValueError"
        ELSE IF ~CsvRow(lines[sel]).ok THEN "csv.Error"
        ELSE ""

parse_response(resp, filename, cq) ==
    LET lines == SplitLines(Strip(resp))
        sel == SelectLine(lines)
    IN  IF sel = 0 \/ lines[sel] = <<>>
        THEN PaperMetadata(filename, <<>>, Some(NoCsvLineMsg), None)
        ELSE LET parsed == CsvRow(lines[sel])
             IN  IF parsed.ok
                 THEN PaperMetadata(filename, parsed.row, None, cq)
                 ELSE PaperMetadata(filename, <<>>, Some(CsvErrorMsg), None)

(***************************************************************************)
(* The response texts of SpecParse: an optional prose line, an optional    *)
(* CSV row and an optional closing line, joined by line ends.              *)
(***************************************************************************)
MaxProseCommas == 14    \* a prose line holds 0..MaxProseCommas commas
MaxRowFields == 16      \* a row is written from 1..MaxRowFields fields

Phrases == {"", RQWord, CFWord}
Styles == {"plain", "rich", "bare", "echo"}
PostChoices == {"none", "prose", "blank"}
LineEnds == {<<NL>>, <<CR, NL>>}

\* a prose line: k+1 words separated by commas, then possibly a prompt phrase
RECURSIVE ProseWords(_)
ProseWords(k) == IF k = 0 THEN <<"a">> ELSE ProseWords(k - 1) \o <<Comma, "a">>

ProseLine(p) ==
    ProseWords(p.k) \o (IF p.phrase = "" THEN <<>> ELSE <<SP, p.phrase>>)

\* the content of field i of a row written in a style
Content(i, style) ==
    CASE style = "rich" ->
            CASE i % 4 = 1 -> <<"a", Comma, "b">>
              [] i % 4 = 2 -> <<"a", Quote, "b">>
              [] i % 4 = 3 -> <<>>
              [] OTHER -> <<"a", SP, "b">>
      [] style = "echo" ->
            IF i = 1 THEN <<"a", SP, RQWord>> ELSE <<"b">>
      [] OTHER -> IF i % 2 = 1 THEN <<"a">> ELSE <<"b">>

RowFields(r) == [i \in 1..r.n |-> Content(i, r.style)]

\* a field as the prompt asks for it: in double quotes, inner quotes doubled
RECURSIVE EscapeQuotes(_)
EscapeQuotes(f) ==
    IF f = <<>> THEN <<>>
    ELSE (IF Head(f) = Quote THEN <<Quote, Quote>> ELSE <<Head(f)>>)
            \o EscapeQuotes(Tail(f))

QuotedField(f) == <<Quote>> \o EscapeQuotes(f) \o <<Quote>>

RECURSIVE JoinFields(_, _)
JoinFields(fields, quoted) ==
    IF fields = <<>> THEN <<>>
    ELSE (IF quoted THEN QuotedField(Head(fields)) ELSE Head(fields))
            \o (IF Len(fields) > 1 THEN <<Comma>> ELSE <<>>)
            \o JoinFields(Tail(fields), quoted)

RowLine(r) == JoinFields(RowFields(r), r.style # "bare")

NoProse == [k |-> 0, phrase |-> "none"]
NoRow == [n |-> 0, style |-> "none"]

ProseSpecs == [k : 0..MaxProseCommas, phrase : Phrases] \cup {NoProse}
RowSpecs == [n : 1..MaxRowFields, style : Styles] \cup {NoRow}
\* the number of fields the query asks for: 3, or the 15 of the query of main()
Wants == {3, NumFields}
InSpecs ==
    [pre : ProseSpecs, row : RowSpecs, post : PostChoices, eol : LineEnds, want : Wants]

\* the lines of a response before they are joined
SpecLines(sp) ==
    (IF sp.pre = NoProse THEN <<>> ELSE <<ProseLine(sp.pre)>>)
        \o (IF sp.row = NoRow THEN <<>> ELSE <<RowLine(sp.row)>>)
        \o (CASE sp.post = "prose" -> << <<"a", SP, "b">> >>
              [] sp.post = "blank" -> << <<>>, <<SP>> >>
              [] OTHER -> <<>>)

RECURSIVE JoinLines(_, _)
JoinLines(lines, eol) ==
    IF lines = <<>> THEN <<>>
    ELSE Head(lines) \o (IF Len(lines) > 1 THEN eol ELSE <<>>)
            \o JoinLines(Tail(lines), eol)

ResponseOf(sp) == JoinLines(SpecLines(sp), sp.eol)

ParseFile == <<"paper1.pdf">>
\* self.current_query: the query process_paper was given
ParseQuery == IF inspec.want = NumFields THEN <<"query">> ELSE <<"query of 3 fields">>
NoRecord == PaperMetadata(<<>>, <<>>, None, None)

ParseInit ==
    /\ inspec \in InSpecs
    /\ response = ResponseOf(inspec)
    /\ record = NoRecord
    /\ ppc = "ready"

\* the parser is not part of the run
ParseOff ==
    /\ inspec = [pre |-> NoProse, row |-> NoRow, post |-> "none", eol |-> <<NL>>,
                 want |-> NumFields]
    /\ response = <<>>
    /\ record = NoRecord
    /\ ppc = "off"

\* one call of _parse_response
Parse ==
    /\ ppc = "ready"
    /\ record' = parse_response(response, ParseFile, Some(ParseQuery))
    /\ ppc' = "parsed"
    /\ UNCHANGED <<response, inspec, limVars, pipeVars, fetchVars, keyVars, extractVars>>

(***************************************************************************)
(* src/main.py: the loop over the query sets, and QueryProcessor.          *)
(***************************************************************************)
query_sets == <<"volcano", "pandemic">>     \* the name of each config["query_sets"]
QueryNames == {query_sets[i] : i \in DOMAIN query_sets}

MaxPages == 2           \* pages the API holds for one query at most
Scores == {1, 2}        \* relevance_score of a work

\* data.get('results', []) of one page: works, told apart by relevance_score
PageResults == {<<>>} \cup {<<a>> : a \in Scores}

\* DataFrame.sort_values(by='relevance_score', ascending=False)
RECURSIVE SortDescending(_)
SortDescending(rows) ==
    IF rows = <<>> THEN <<>>
    ELSE LET top == CHOOSE i \in DOMAIN rows : \A j \in DOMAIN rows : rows[j] <= rows[i]
             rest == [k \in 1..(Len(rows) - 1) |-> IF k < top THEN rows[k] ELSE rows[k + 1]]
         IN  <<rows[top]>> \o SortDescending(rest)

\* the result files an earlier run can have left
StoredFrames ==
    {SortDescending(r) :
        r \in UNION {[1..n -> Scores] : n \in 1..MaxPages}}

\* QueryProcessor.load_from_cache: the rows of the file, None without a file
load_from_cache(files, name) == files[name]

\* QueryProcessor.save_to_cache
save_to_cache(files, df, name) == [files EXCEPT ![name] = Some(df)]

FetchCommon ==
    /\ qi = 1
    /\ cursor = 0
    /\ fetched_results = <<>>
    /\ all_results = [q \in QueryNames |-> None]
    /\ page_requests = [q \in QueryNames |-> 0]

FetchInit ==
    /\ FetchCommon
    /\ force_refresh \in BOOLEAN
    /\ cache_files \in [QueryNames -> {None} \cup {Some(d) : d \in StoredFrames}]
    /\ fpc = "main"

FetchOff ==
    /\ FetchCommon
    /\ force_refresh = FALSE
    /\ cache_files = [q \in QueryNames |-> None]
    /\ fpc = "off"

CurrentName == query_sets[qi]

\* the end of one iteration of the for loop of main
MainKeeps(df) ==
    /\ all_results' = [all_results EXCEPT ![CurrentName] = Some(df)]
    /\ qi' = qi + 1
    /\ fpc' = "main"
    /\ cursor' = 0
    /\ fetched_results' = <<>>

\* fetch_all_data up to its loop: the cached rows when the file exists
FetchAllDataBegins ==
    LET cached_results == load_from_cache(cache_files, CurrentName)
    IN  IF cached_results # None
        THEN MainKeeps(cached_results.val) /\ UNCHANGED <<cache_files, page_requests>>
        ELSE /\ fpc' = "fetching"
             /\ cursor' = 1
             /\ fetched_results' = <<>>
             /\ UNCHANGED <<cache_files, page_requests, all_results, qi>>

\* one iteration of the for loop of main, up to the first page request
MainQuery ==
    /\ fpc = "main"
    /\ qi <= Len(query_sets)
    /\ IF force_refresh
       THEN FetchAllDataBegins
       ELSE LET cached == load_from_cache(cache_files, CurrentName)
            IN  IF cached # None
                THEN MainKeeps(cached.val) /\ UNCHANGED <<cache_files, page_requests>>
                ELSE FetchAllDataBegins
    /\ UNCHANGED <<force_refresh, parseVars, limVars, pipeVars, keyVars, extractVars>>

\* the end of fetch_all_data: sort, save_to_cache, return to main
FetchAllDataEnds(rows) ==
    LET df == SortDescending(rows)
    IN  /\ cache_files' = save_to_cache(cache_files, df, CurrentName)
        /\ MainKeeps(df)

\* one iteration of the while loop of fetch_all_data: get_page returns
GetPage(page, next_cursor) ==
    /\ fpc = "fetching"
    /\ cursor # 0
    /\ next_cursor \in {0, cursor + 1}
    /\ cursor = MaxPages => next_cursor = 0
    /\ page_requests' = [page_requests EXCEPT ![CurrentName] = @ + 1]
    /\ IF page = <<>>
       THEN FetchAllDataEnds(fetched_results)
       ELSE IF next_cursor = 0
            THEN FetchAllDataEnds(fetched_results \o page)
            ELSE /\ fetched_results' = fetched_results \o page
                 /\ cursor' = next_cursor
                 /\ UNCHANGED <<cache_files, all_results, qi, fpc>>
    /\ UNCHANGED <<force_refresh, parseVars, limVars, pipeVars, keyVars, extractVars>>

\* get_page raises (requests.get or raise_for_status): nothing in main catches it
GetPageRaises ==
    /\ fpc = "fetching"
    /\ cursor # 0
    /\ page_requests' = [page_requests EXCEPT ![CurrentName] = @ + 1]
    /\ fpc' = "failed"
    /\ UNCHANGED <<force_refresh, cache_files, qi, cursor, fetched_results, all_results,
                   parseVars, limVars, pipeVars, keyVars, extractVars>>

\* the for loop of main is over
MainEnds ==
    /\ fpc = "main"
    /\ qi > Len(query_sets)
    /\ fpc' = "done"
    /\ UNCHANGED <<force_refresh, cache_files, qi, cursor, fetched_results, all_results,
                   page_requests, parseVars, limVars, pipeVars, keyVars, extractVars>>

FetchNext ==
    \/ MainQuery
    \/ \E page \in PageResults, next_cursor \in 0..MaxPages : GetPage(page, next_cursor)
    \/ GetPageRaises
    \/ MainEnds

(***************************************************************************)
(* The rate limiter of PaperProcessor.                                     *)
(***************************************************************************)
tokens_per_minute == 20000
WindowSeconds == 60     \* datetime.timedelta(minutes=1)
wait_time == 60

TickStep == 30          \* the clock is read every TickStep seconds
MaxSamples == 3         \* _record_token_usage calls of the caller of SpecLimiter
TokenUnit == 8000       \* its token counts are multiples of TokenUnit
MaxReqUnits == 3

ReqTokens == {k * TokenUnit : k \in 1..MaxReqUnits}

RECURSIVE SumCounts(_)
SumCounts(usage) ==
    IF usage = <<>> THEN 0 ELSE Head(usage).count + SumCounts(Tail(usage))

\* the list comprehension of _cleanup_old_usage: order kept
RECURSIVE KeepNewer(_, _)
KeepNewer(usage, limit) ==
    IF usage = <<>> THEN <<>>
    ELSE (IF Head(usage).ts > limit THEN <<Head(usage)>> ELSE <<>>)
            \o KeepNewer(Tail(usage), limit)

\* _cleanup_old_usage at clock value t
cleanup_old_usage(usage, t) == KeepNewer(usage, t - WindowSeconds)

\* _get_current_token_usage at clock value t, on the list it has just pruned
get_current_token_usage(usage, t) == SumCounts(cleanup_old_usage(usage, t))

\* Admits with the request left out of the sum
Admits_IgnoresRequest(usage, t, req) ==
    \/ get_current_token_usage(usage, t) <= tokens_per_minute
    \/ cleanup_old_usage(usage, t) = <<>>

\* Admits whatever the list holds
Admits_Always(usage, t, req) == TRUE

\* Admits on the list as it stands, not pruned
Admits_Unpruned(usage, t, req) ==
    \/ SumCounts(usage) + req <= tokens_per_minute
    \/ usage = <<>>

\* Admits without the test for an empty list
Admits_NoEmptyTest(usage, t, req) ==
    get_current_token_usage(usage, t) + req <= tokens_per_minute

\* the two tests of the loop of _wait_for_rate_limit, on the pruned list
Admits(usage, t, req) ==
    \/ get_current_token_usage(usage, t) + req <= tokens_per_minute
    \/ cleanup_old_usage(usage, t) = <<>>

(***************************************************************************)
(* Documents, the tokenizer, the cache and the result store.               *)
(***************************************************************************)
Files == {<<"paper1.pdf">>, <<"paper2.pdf">>}
DocLens == {900, 10000, 30000}
Query == <<"query">>

MaxRuns == 2            \* process_directory calls followed

\* self.prompt_tokens and count_tokens(query): what the tokenizer gives for the
\* fixed prompt and for the query of main()
prompt_tokens == 17
QueryTokens == 700

MinTokens == 1000       \* max(1000, target_tokens)
RatioNum == 4           \* truncation_ratio = 0.8
RatioDen == 5

\* PDFExtractor.extract: the text of a PDF, a prefix of its token stream
NoText == [content |-> <<>>, len |-> 0]
Text(f, n) == [content |-> f, len |-> n]

\* Tokenizer.count_tokens
count_tokens(text) == text.len

\* encoding.decode(encoding.encode(text)[:n])
TruncateTo(text, n) == [text EXCEPT !.len = IF n < text.len THEN n ELSE text.len]

\* ShrinkTarget without the ratio
ShrinkTarget_NoRatio(current_tokens) ==
    IF current_tokens > MinTokens THEN current_tokens ELSE MinTokens

\* ShrinkTarget held below what the minute still allows
ShrinkTarget_WithinBudget(current_tokens) ==
    LET target_tokens == (current_tokens * RatioNum) \div RatioDen
        max_allowed == tokens_per_minute - get_current_token_usage(token_usage, now)
        least == IF target_tokens < max_allowed THEN target_tokens ELSE max_allowed
    IN  IF least > MinTokens THEN least ELSE MinTokens

\* the target of the shrink branch of process_paper
ShrinkTarget(current_tokens) ==
    LET target_tokens == (current_tokens * RatioNum) \div RatioDen
    IN  IF target_tokens > MinTokens THEN target_tokens ELSE MinTokens

\* the text process_paper goes on with after an overflow
Shrink(text) == TruncateTo(text, ShrinkTarget(count_tokens(text)))

\* TotalTokens counted once, on the text as extracted
TotalTokens_OfFullText(text) ==
    doc_len[text.content] + prompt_tokens + QueryTokens

\* total_tokens of process_paper
TotalTokens(text) == count_tokens(text) + prompt_tokens + QueryTokens

\* CacheKey of the pair, text and query kept apart
CacheKey_OfPair(text, query) == <<text, query>>

\* hashlib.md5((text + query).encode()).hexdigest(): md5 is taken to be
\* collision free, so the key is the concatenated string itself
CacheKey(text, query) == text \o query

\* the string of an extracted text of the directory: one symbol stands for it
DocString(text) == <<text>>

EmptyCache == [k \in {} |-> <<>>]

\* the cache file: the dictionary json.load gives, or a text that is not JSON
\* (cut short by an interrupted json.dump), on which json.load raises
FileOf(c) == [valid |-> TRUE, data |-> c]
BrokenFile == [valid |-> FALSE, data |-> EmptyCache]

\* FileCache.get
cache_get(c, key) == IF key \in DOMAIN c THEN Some(c[key]) ELSE None

\* FileCache.set: the dictionary after self.cache[key] = value
cache_set(c, key, value) ==
    [k \in DOMAIN c \cup {key} |-> IF k = key THEN value ELSE c[k]]

\* Truthy that takes no cached value for true
Truthy_Never(opt) == FALSE

\* `if cached_response := self.cache.get(cache_key)`: None and "" are both false
Truthy(opt) == opt.some /\ opt.val # <<>>

\* the row CSVStorage writes for a record (to_dict leaves current_query out)
ToRow(r) == [r EXCEPT !["current_query"] = None]

\* CSVStorage.save_results: the file holds the rows of `results` and nothing else
save_results(res) == [i \in DOMAIN res |-> ToRow(res[i])]

\* CSVStorage.is_processed
is_processed(rows, filename) ==
    \E i \in DOMAIN rows : rows[i]["filename"].val = filename

(***************************************************************************)
(* The cache key of two process_paper calls, on any texts and queries.     *)
(***************************************************************************)
KeySymbols == {"a", "b"}
MaxKeyLen == 2          \* a text or a query holds at most MaxKeyLen symbols

KeyStrings == UNION {[1..n -> KeySymbols] : n \in 0..MaxKeyLen}
KeyCalls == [text : KeyStrings, query : KeyStrings]

\* a response that counts as true
KeyResponse == <<"a", Comma, "b">>

KeyInit ==
    /\ first_call \in KeyCalls
    /\ second_call \in KeyCalls
    /\ key_cache = EmptyCache
    /\ second_hit = None
    /\ kpc = "first"

KeyOff ==
    /\ first_call = [text |-> <<>>, query |-> <<>>]
    /\ second_call = [text |-> <<>>, query |-> <<>>]
    /\ key_cache = EmptyCache
    /\ second_hit = None
    /\ kpc = "off"

\* process_paper on the first text and query: a miss, the response is cached
FirstPaper ==
    /\ kpc = "first"
    /\ ~Truthy(cache_get(key_cache, CacheKey(first_call.text, first_call.query)))
    /\ key_cache' = cache_set(key_cache,
                              CacheKey(first_call.text, first_call.query), KeyResponse)
    /\ kpc' = "second"
    /\ UNCHANGED <<first_call, second_call, second_hit>>
    /\ UNCHANGED <<parseVars, limVars, pipeVars, fetchVars, extractVars>>

\* process_paper on the second text and query, up to its cache check
SecondPaper ==
    /\ kpc = "second"
    /\ second_hit' = cache_get(key_cache, CacheKey(second_call.text, second_call.query))
    /\ kpc' = "done"
    /\ UNCHANGED <<first_call, second_call, key_cache>>
    /\ UNCHANGED <<parseVars, limVars, pipeVars, fetchVars, extractVars>>

KeyNext ==
    \/ FirstPaper
    \/ SecondPaper

(***************************************************************************)
(* The LLM client: it returns a text or raises.                            *)
(***************************************************************************)
EmptyResponse == <<>>
\* one prose line, then a row of 15 unquoted fields
FullResponse ==
    <<"a", SP, "b", NL,
      "a", Comma, "b", Comma, "a", Comma, "b", Comma, "a", Comma, "b", Comma,
      "a", Comma, "b", Comma, "a", Comma, "b", Comma, "a", Comma, "b", Comma,
      "a", Comma, "b", Comma, "a">>
\* prose only
ProseResponse == <<"a", Comma, SP, "b">>

ClientResponses == {EmptyResponse, FullResponse, ProseResponse}

ErrorClasses ==
    {"ValueError", "RuntimeError", "AttributeError", "OSError", "KeyError", "Exception"}
ErrorMessages == {<<"prompt is", "too long">>, <<"Token", "limit">>, <<"Token">>}

\* except (ValueError, RuntimeError, AttributeError) in process_paper
PaperCaught == {"ValueError", "RuntimeError", "AttributeError"}
\* except (IOError, OSError, ValueError, KeyError) in process_directory
DirectoryCaught == {"OSError", "ValueError", "KeyError"}

\* "too long" in error_str or "token" in error_str and "limit" in error_str
IsOverflow(msg) ==
    \/ ContainsLower(msg, "too long")
    \/ (ContainsLower(msg, "token") /\ ContainsLower(msg, "limit"))

ClientOutcomes ==
    [kind : {"text"}, text : ClientResponses, class : {""}]
        \cup [kind : {"raise"}, text : ErrorMessages, class : ErrorClasses]

\* the service takes a text of at most `limit` tokens: a longer one is refused
\* with an overflow message, no other is; any call can fail for another reason
ServiceLimits == {0, 11000, 25000}

Accepts(text, limit) == count_tokens(text) <= limit

ClientCan(o, text, limit) ==
    IF o.kind = "text" THEN Accepts(text, limit)
    ELSE IsOverflow(o.text) => ~Accepts(text, limit)

\* glob("*.pdf"): some PDFs of the directory, in some order
DirListings ==
    {l \in UNION {[1..n -> Files] : n \in 0..Cardinality(Files)} :
        \A i, j \in DOMAIN l : i # j => l[i] # l[j]}

NoDone == [valid |-> FALSE, prev |-> 0, calls |-> 0]

(***************************************************************************)
(* scripts/LLM_gcr_paper_extractor.py: the batch loop at module level.     *)
(***************************************************************************)
\* how a process_with_claude call and the lines after it end: the response is
\* returned and the cache file written, the response is returned and writing
\* the cache file raises, or the call raises
CallOutcomes == {"returned", "save_failed", "raised"}

\* SleepsAfter whatever the outcome
SleepsAfter_Always(outcome) == TRUE

\* sleep_time.sleep(60) is the last statement of the else branch: it is reached
\* when no statement before it raised
SleepsAfter(outcome) == outcome = "returned"

RowOf(f, failed) == [filename |-> f, error |-> failed]

\* the rows pd.read_csv finds in the output file of an earlier run
LoadedResults ==
    {[i \in DOMAIN l |-> RowOf(l[i], e[i])] :
        <<l, e>> \in UNION {{<<l2, e2>> : e2 \in [DOMAIN l2 -> BOOLEAN]} : l2 \in DirListings}}

ExtractInit ==
    /\ x_pdf_files \in DirListings
    /\ x_idx = 1
    /\ xpc = "loop"
    /\ x_cache \in SUBSET Files
    /\ x_results \in LoadedResults
    /\ processed_files = {x_results[i].filename : i \in DOMAIN x_results}
    /\ x_last = "none"
    /\ x_slept = FALSE

ExtractOff ==
    /\ x_pdf_files = <<>>
    /\ x_idx = 1
    /\ xpc = "off"
    /\ x_cache = {}
    /\ x_results = <<>>
    /\ processed_files = {}
    /\ x_last = "none"
    /\ x_slept = FALSE

XFile == x_pdf_files[x_idx]

\* results.append(...) and interim_df.to_csv(...): the loop goes on
XAppend(failed) ==
    /\ x_results' = Append(x_results, RowOf(XFile, failed))
    /\ x_idx' = x_idx + 1
    /\ xpc' = "loop"

\* `if pdf_path.name not in processed_files`: else branch
XSkip ==
    /\ xpc = "loop"
    /\ x_idx <= Len(x_pdf_files)
    /\ XFile \in processed_files
    /\ x_idx' = x_idx + 1
    /\ UNCHANGED <<x_pdf_files, xpc, x_cache, processed_files, x_results, x_last, x_slept>>
    /\ UNCHANGED <<parseVars, limVars, pipeVars, fetchVars, keyVars>>

\* `if cache_key in cache`: the cached response is parsed; parse_csv_response
\* returns a row or raises csv.Error, which the except clause turns into an
\* error row
XCached ==
    /\ xpc = "loop"
    /\ x_idx <= Len(x_pdf_files)
    /\ XFile \notin processed_files
    /\ XFile \in x_cache
    /\ \E failed \in BOOLEAN : XAppend(failed)
    /\ UNCHANGED <<x_pdf_files, x_cache, processed_files, x_last, x_slept>>
    /\ UNCHANGED <<parseVars, limVars, pipeVars, fetchVars, keyVars>>

\* else: process_with_claude(text, config['query'], ...) is entered
XCall ==
    /\ xpc = "loop"
    /\ x_idx <= Len(x_pdf_files)
    /\ XFile \notin processed_files
    /\ XFile \notin x_cache
    /\ xpc' = "calling"
    /\ UNCHANGED <<x_pdf_files, x_idx, x_cache, processed_files, x_results, x_last, x_slept>>
    /\ UNCHANGED <<parseVars, limVars, pipeVars, fetchVars, keyVars>>

\* process_with_claude returns or raises; cache[cache_key] = response; the
\* cache file is written; then the sleep, or the except clause and its error row
XReply(outcome) ==
    /\ xpc = "calling"
    /\ x_cache' = IF outcome = "raised" THEN x_cache ELSE x_cache \cup {XFile}
    /\ x_last' = outcome
    /\ x_slept' = FALSE
    /\ IF SleepsAfter(outcome)
       THEN xpc' = "sleeping" /\ UNCHANGED <<x_results, x_idx>>
       ELSE XAppend(TRUE)
    /\ UNCHANGED <<x_pdf_files, processed_files>>
    /\ UNCHANGED <<parseVars, limVars, pipeVars, fetchVars, keyVars>>

\* sleep_time.sleep(60), then the response is parsed and its row saved
XSleep ==
    /\ xpc = "sleeping"
    /\ x_slept' = TRUE
    /\ \E failed \in BOOLEAN : XAppend(failed)
    /\ UNCHANGED <<x_pdf_files, x_cache, processed_files, x_last>>
    /\ UNCHANGED <<parseVars, limVars, pipeVars, fetchVars, keyVars>>

\* the for loop is over
XEnd ==
    /\ xpc = "loop"
    /\ x_idx > Len(x_pdf_files)
    /\ xpc' = "done"
    /\ UNCHANGED <<x_pdf_files, x_idx, x_cache, processed_files, x_results, x_last, x_slept>>
    /\ UNCHANGED <<parseVars, limVars, pipeVars, fetchVars, keyVars>>

ExtractNext ==
    \/ XSkip
    \/ XCached
    \/ XCall
    \/ \E outcome \in CallOutcomes : XReply(outcome)
    \/ XSleep
    \/ XEnd

(***************************************************************************)
(* Initial states.                                                         *)
(***************************************************************************)
LimInit ==
    /\ token_usage = <<>>
    /\ now = 0
    /\ lpc = "idle"
    /\ required = 0
    /\ sleeps = 0
    /\ recorded = <<>>
    /\ entryFresh = FALSE

PipeCommon ==
    /\ cache = EmptyCache
    /\ cache_file = FileOf(EmptyCache)
    /\ store = <<>>
    /\ runs = 0
    /\ pdf_files = <<>>
    /\ idx = 1
    /\ results = <<>>
    /\ current_text = NoText
    /\ current_query = None
    /\ attempts = {}
    /\ called = {}
    /\ repeat = FALSE
    /\ failedDocs = {}
    /\ ncalls = 0
    /\ prevCalls = [f \in Files |-> -1]
    /\ lastDone = NoDone

\* a new cache file, a new CSV file with its header, a directory of PDFs
PipeInit ==
    /\ PipeCommon
    /\ doc_len \in [Files -> DocLens]
    /\ service_limit \in ServiceLimits
    /\ pc = "idle"

\* process_directory is not part of the run
PipeOff ==
    /\ PipeCommon
    /\ doc_len = [f \in Files |-> 0]
    /\ service_limit = 0
    /\ pc = "off"

(***************************************************************************)
(* _wait_for_rate_limit and _record_token_usage, statement by statement.   *)
(***************************************************************************)
\* the clock moves on; it may do so between any two statements.  Once every
\* sample of the list is 60 seconds old no statement depends on the clock any
\* more, and it is not followed further.  process_paper reads the clock only
\* inside _wait_for_rate_limit and after the client call, so under
\* process_directory the time that passes elsewhere is counted there.
Tick ==
    /\ cleanup_old_usage(token_usage, now) # <<>>
    /\ pc \in {"off", "waiting", "calling"}
    /\ lpc \notin {"sleeping", "returned"}
    /\ now' = now + TickStep
    /\ UNCHANGED <<token_usage, lpc, required, sleeps, recorded, entryFresh>>
    /\ UNCHANGED <<parseVars, pipeVars, fetchVars, keyVars, extractVars>>

\* _wait_for_rate_limit(req) is entered
WaitBegin(req) ==
    /\ lpc = "idle"
    /\ lpc' = "check"
    /\ required' = req
    /\ sleeps' = 0
    /\ entryFresh' = (cleanup_old_usage(token_usage, now) # <<>>)
    /\ UNCHANGED <<token_usage, now, recorded>>

\* the head of the loop: prune, sum, and break or go on to the sleep
WaitCheck ==
    /\ lpc = "check"
    /\ token_usage' = cleanup_old_usage(token_usage, now)
    /\ lpc' = IF Admits(token_usage, now, required) THEN "returned" ELSE "sleeping"
    /\ UNCHANGED <<now, required, sleeps, recorded, entryFresh>>
    /\ UNCHANGED <<parseVars, pipeVars, fetchVars, keyVars, extractVars>>

\* the time left until the oldest sample of the list is 60 seconds old
UntilOldestExpires(usage, t) == WindowSeconds - (t - Head(usage).ts)

\* SleepTime taken from the age of the oldest sample
SleepTime_UntilOldestExpires(usage, t) == UntilOldestExpires(usage, t)

\* SleepTime of half a minute
SleepTime_HalfMinute(usage, t) == wait_time \div 2

\* the argument of sleep_time.sleep in _wait_for_rate_limit
SleepTime(usage, t) == wait_time

\* sleep_time.sleep(wait_time): wait_time seconds pass, or somewhat more
WaitSleep ==
    /\ lpc = "sleeping"
    /\ \E d \in {0, TickStep} : now' = now + SleepTime(token_usage, now) + d
    /\ sleeps' = sleeps + 1
    /\ lpc' = "woke"
    /\ UNCHANGED <<token_usage, required, recorded, entryFresh>>
    /\ UNCHANGED <<parseVars, pipeVars, fetchVars, keyVars, extractVars>>

\* the _cleanup_old_usage call that ends the loop body
WaitCleanup ==
    /\ lpc = "woke"
    /\ token_usage' = cleanup_old_usage(token_usage, now)
    /\ lpc' = "check"
    /\ UNCHANGED <<now, required, sleeps, recorded, entryFresh>>
    /\ UNCHANGED <<parseVars, pipeVars, fetchVars, keyVars, extractVars>>

\* _record_token_usage(count)
RecordUsage(count) ==
    token_usage' = Append(token_usage, [ts |-> now, count |-> count])

\* the return of _wait_for_rate_limit to its caller
WaitEnd ==
    /\ lpc = "returned"
    /\ lpc' = "idle"
    /\ required' = 0
    /\ sleeps' = 0
    /\ entryFresh' = FALSE

\* ---- the caller of SpecLimiter: any calls in any order, one at a time
CallerRecord ==
    /\ lpc = "idle"
    /\ Len(recorded) < MaxSamples
    /\ \E c \in ReqTokens :
        /\ RecordUsage(c)
        /\ recorded' = Append(recorded, [ts |-> now, count |-> c])
    /\ UNCHANGED <<now, lpc, required, sleeps, entryFresh>>
    /\ UNCHANGED <<parseVars, pipeVars, fetchVars, keyVars, extractVars>>

CallerWait ==
    /\ \E req \in ReqTokens : WaitBegin(req)
    /\ UNCHANGED <<parseVars, pipeVars, fetchVars, keyVars, extractVars>>

CallerResume ==
    /\ WaitEnd
    /\ UNCHANGED <<token_usage, now, recorded>>
    /\ UNCHANGED <<parseVars, pipeVars, fetchVars, keyVars, extractVars>>

LimNext ==
    \/ Tick
    \/ WaitCheck
    \/ WaitSleep
    \/ WaitCleanup
    \/ CallerRecord
    \/ CallerWait
    \/ CallerResume

InitLimiter == LimInit /\ ParseOff /\ PipeOff /\ FetchOff /\ KeyOff /\ ExtractOff

SpecLimiter == InitLimiter /\ [][LimNext]_vars

InitParse == ParseInit /\ LimInit /\ PipeOff /\ FetchOff /\ KeyOff /\ ExtractOff

SpecParse == InitParse /\ [][Parse]_vars

(***************************************************************************)
(* process_directory and process_paper.                                    *)
(*   pc: idle     no process_directory call is running                     *)
(*       loop     at the head of `for pdf_path in pdf_files`               *)
(*       start    process_paper entered, before its cache check            *)
(*       admit    at the head of `while True`, before _wait_for_rate_limit *)
(*       waiting  inside _wait_for_rate_limit                              *)
(*       calling  inside llm_client.process_text                           *)
(*       crashed  an exception left process_directory or main              *)
(*       killed   the process was ended from outside                       *)
(***************************************************************************)
CurrentFile == pdf_files[idx]
FullText == Text(CurrentFile, doc_len[CurrentFile])
FullKey == CacheKey(DocString(FullText), Query)

\* UsesCachedRow with the test of the row turned round
UsesCachedRow_RowTestInverted ==
    ~is_processed(store, CurrentFile) /\ Truthy(cache_get(cache, FullKey))

\* the two tests at the head of the loop body: the PDF has a row and the cache
\* holds a response that counts as true
UsesCachedRow ==
    is_processed(store, CurrentFile) /\ Truthy(cache_get(cache, FullKey))

\* ResponseKey taken from the text that was sent
ResponseKey_OfCurrentText == CacheKey(DocString(current_text), Query)

\* cache_key of process_paper: computed once, from the extracted text
ResponseKey == FullKey

SaveErrorMsg == <<"No space left on device">>

\* main() runs in a new process: the cache file is loaded, the usage list is
\* empty, and process_directory is called on the PDFs the directory holds
StartRun ==
    /\ pc \in {"idle", "crashed", "killed"}
    /\ runs < MaxRuns
    /\ runs' = runs + 1
    /\ IF cache_file.valid
       THEN /\ pdf_files' \in DirListings
            /\ pc' = "loop"
            /\ cache' = cache_file.data
       ELSE \* json.load raises in FileCache.__init__ and main() ends
            /\ pdf_files' = <<>>
            /\ pc' = "crashed"
            /\ cache' = EmptyCache
    /\ idx' = 1
    /\ results' = <<>>
    /\ failedDocs' = {}
    /\ token_usage' = <<>>
    /\ now' = 0
    /\ current_query' = None
    /\ UNCHANGED <<cache_file, store, doc_len, service_limit, current_text, attempts, called,
                   repeat, ncalls, prevCalls, lastDone>>
    /\ UNCHANGED <<lpc, required, sleeps, recorded, entryFresh, parseVars, fetchVars, keyVars, extractVars>>

\* the loop is over: process_directory returns and the process ends
EndRun ==
    /\ pc = "loop"
    /\ idx > Len(pdf_files)
    /\ pc' = "idle"
    /\ pdf_files' = <<>>
    /\ idx' = 1
    /\ results' = <<>>
    /\ failedDocs' = {}
    /\ lastDone' = NoDone
    /\ token_usage' = <<>>
    /\ now' = 0
    /\ current_query' = None
    /\ UNCHANGED <<cache, cache_file, store, doc_len, service_limit, runs, current_text,
                   attempts, called, repeat, ncalls, prevCalls>>
    /\ UNCHANGED <<lpc, required, sleeps, recorded, entryFresh, parseVars, fetchVars, keyVars, extractVars>>

\* the head of the loop body: a PDF that has a row and a cached response is
\* parsed from the cache and the loop continues; any other goes to process_paper
LoopStep ==
    /\ pc = "loop"
    /\ idx <= Len(pdf_files)
    /\ IF UsesCachedRow
       THEN /\ current_query' = Some(Query)
            /\ results' = Append(results,
                    parse_response(cache_get(cache, FullKey).val, CurrentFile, Some(Query)))
            /\ idx' = idx + 1
            /\ UNCHANGED pc
       ELSE /\ pc' = "start"
            /\ UNCHANGED <<current_query, results, idx>>
    /\ lastDone' = NoDone
    /\ UNCHANGED <<cache, cache_file, store, doc_len, service_limit, runs, pdf_files, current_text,
                   attempts, called, repeat, failedDocs, ncalls, prevCalls>>
    /\ UNCHANGED <<limVars, parseVars, fetchVars, keyVars, extractVars>>

\* process_paper returns rec: results.append(result), save_results(results),
\* and the loop goes on
PaperReturns(rec) ==
    /\ results' = Append(results, rec)
    /\ store' = save_results(Append(results, rec))
    /\ idx' = idx + 1
    /\ pc' = "loop"
    /\ current_text' = NoText
    /\ attempts' = {}

\* the ghost record of a process_paper call that returned after n client calls
DoneWith(n) ==
    /\ lastDone' = [valid |-> TRUE, prev |-> prevCalls[CurrentFile], calls |-> n]
    /\ prevCalls' = [prevCalls EXCEPT ![CurrentFile] = n]

\* process_paper up to its cache check
PaperStart ==
    /\ pc = "start"
    /\ current_query' = Some(Query)
    /\ IF Truthy(cache_get(cache, FullKey))
       THEN LET rec == parse_response(cache_get(cache, FullKey).val, CurrentFile, Some(Query))
            IN  /\ PaperReturns(rec)
                /\ DoneWith(0)
                /\ UNCHANGED ncalls
       ELSE /\ current_text' = FullText
            /\ attempts' = {}
            /\ ncalls' = 0
            /\ pc' = "admit"
            /\ UNCHANGED <<results, store, idx, lastDone, prevCalls>>
    /\ UNCHANGED <<cache, cache_file, doc_len, service_limit, runs, pdf_files, called, repeat, failedDocs>>
    /\ UNCHANGED <<limVars, parseVars, fetchVars, keyVars, extractVars>>

\* total_tokens is computed and _wait_for_rate_limit(total_tokens) is entered
PaperAdmit ==
    /\ pc = "admit"
    /\ WaitBegin(TotalTokens(current_text))
    /\ pc' = "waiting"
    /\ UNCHANGED <<cache, cache_file, store, doc_len, service_limit, runs, pdf_files, idx, results,
                   current_text, current_query, attempts, called, repeat,
                   failedDocs, ncalls, prevCalls, lastDone>>
    /\ UNCHANGED <<parseVars, fetchVars, keyVars, extractVars>>

\* _wait_for_rate_limit has returned: llm_client.process_text(current_text, query)
PaperCall ==
    /\ pc = "waiting"
    /\ WaitEnd
    /\ pc' = "calling"
    /\ attempts' = attempts \cup {count_tokens(current_text)}
    /\ repeat' = (repeat \/ count_tokens(current_text) \in attempts
                          \/ (attempts = {} /\ CurrentFile \in called))
    /\ called' = called \cup {CurrentFile}
    /\ ncalls' = IF ncalls < 2 THEN ncalls + 1 ELSE 2
    /\ UNCHANGED <<cache, cache_file, store, doc_len, service_limit, runs, pdf_files, idx, results,
                   current_text, current_query, failedDocs, prevCalls, lastDone>>
    /\ UNCHANGED <<token_usage, now, recorded, parseVars, fetchVars, keyVars, extractVars>>

\* the client returned a text: record the usage, cache the text under the key
\* computed at the start, parse it and return
ReplyText(text) ==
    LET rec == parse_response(text, CurrentFile, current_query)
    IN  /\ RecordUsage(TotalTokens(current_text))
        /\ cache' = cache_set(cache, ResponseKey, text)
        /\ cache_file' = FileOf(cache_set(cache, ResponseKey, text))
        /\ PaperReturns(rec)
        /\ DoneWith(ncalls)
        /\ ncalls' = 0
        /\ UNCHANGED failedDocs

\* the client returned a text and _save_cache raised OSError: the dictionary
\* holds the text, the file is as it was (open failed) or cut short (a write
\* failed); process_paper lets the OSError through, process_directory catches it
ReplyTextSaveFails(text, cut) ==
    /\ RecordUsage(TotalTokens(current_text))
    /\ cache' = cache_set(cache, ResponseKey, text)
    /\ cache_file' = IF cut THEN BrokenFile ELSE cache_file
    /\ PaperReturns(PaperMetadata(CurrentFile, <<>>, Some(SaveErrorMsg), None))
    /\ prevCalls' = [prevCalls EXCEPT ![CurrentFile] = 2]
    /\ lastDone' = NoDone
    /\ ncalls' = 0
    /\ UNCHANGED failedDocs

\* the client returned a text and the process is ended while _save_cache
\* rewrites the file: open(cache_file, 'w') has emptied it
ReplyTextKilled ==
    /\ cache_file' = BrokenFile
    /\ pc' = "killed"
    /\ current_text' = NoText
    /\ attempts' = {}
    /\ ncalls' = 0
    /\ prevCalls' = [prevCalls EXCEPT ![CurrentFile] = 2]
    /\ lastDone' = NoDone
    /\ results' = <<>>
    /\ idx' = 1
    /\ failedDocs' = {}
    /\ token_usage' = <<>>
    /\ UNCHANGED <<cache, store>>

\* the except clause of process_directory, or no clause at all
DirectoryExcept(class, msg) ==
    /\ failedDocs' = IF IsOverflow(msg) THEN failedDocs ELSE failedDocs \cup {CurrentFile}
    /\ prevCalls' = [prevCalls EXCEPT ![CurrentFile] = 2]
    /\ lastDone' = NoDone
    /\ IF class \in DirectoryCaught
       THEN PaperReturns(PaperMetadata(CurrentFile, <<>>, Some(msg), None))
       ELSE /\ pc' = "crashed"
            /\ current_text' = NoText
            /\ attempts' = {}
            /\ UNCHANGED <<results, store, idx>>
    /\ ncalls' = 0
    /\ UNCHANGED <<token_usage, cache, cache_file>>

\* ReplyOverflow with the usage of the refused call recorded
ReplyOverflow_Records ==
    /\ current_text' = Shrink(current_text)
    /\ pc' = "admit"
    /\ RecordUsage(TotalTokens(current_text))
    /\ UNCHANGED <<results, store, idx, failedDocs, prevCalls, lastDone,
                   cache, cache_file, attempts, ncalls>>

\* the overflow branch of process_paper: truncate and go round the loop again
ReplyOverflow ==
    /\ current_text' = Shrink(current_text)
    /\ pc' = "admit"
    /\ UNCHANGED <<results, store, idx, failedDocs, prevCalls, lastDone,
                   token_usage, cache, cache_file, attempts, ncalls>>

\* the client raised: the except clause of process_paper, then the caller's
ReplyRaise(class, msg) ==
    IF class \in PaperCaught /\ IsOverflow(msg)
    THEN ReplyOverflow
    ELSE DirectoryExcept(class, msg)

\* llm_client.process_text returns or raises
PaperReply ==
    /\ pc = "calling"
    /\ \/ \E o \in ClientOutcomes :
            /\ ClientCan(o, current_text, service_limit)
            /\ IF o.kind = "text" THEN ReplyText(o.text) ELSE ReplyRaise(o.class, o.text)
       \/ /\ Accepts(current_text, service_limit)
          /\ \E text \in ClientResponses, cut \in BOOLEAN : ReplyTextSaveFails(text, cut)
       \/ /\ Accepts(current_text, service_limit)
          /\ ReplyTextKilled
    /\ UNCHANGED <<doc_len, service_limit, runs, pdf_files, current_query, called, repeat>>
    /\ UNCHANGED <<now, lpc, required, sleeps, recorded, entryFresh, parseVars, fetchVars, keyVars, extractVars>>

\* the process is ended from outside, between two steps
Kill ==
    /\ pc \in {"loop", "start", "admit", "waiting", "calling"}
    /\ pc' = "killed"
    /\ current_text' = NoText
    /\ attempts' = {}
    /\ ncalls' = 0
    /\ prevCalls' = IF pc = "loop" THEN prevCalls
                    ELSE [prevCalls EXCEPT ![CurrentFile] = 2]
    /\ lastDone' = NoDone
    /\ lpc' = "idle"
    /\ required' = 0
    /\ sleeps' = 0
    /\ entryFresh' = FALSE
    /\ pdf_files' = <<>>
    /\ idx' = 1
    /\ results' = <<>>
    /\ failedDocs' = {}
    /\ current_query' = None
    /\ token_usage' = <<>>
    /\ now' = 0
    /\ UNCHANGED <<cache, cache_file, store, doc_len, service_limit, runs, called, repeat>>
    /\ UNCHANGED <<recorded, parseVars, fetchVars, keyVars, extractVars>>

Next ==
    \/ StartRun
    \/ EndRun
    \/ LoopStep
    \/ PaperStart
    \/ PaperAdmit
    \/ PaperCall
    \/ PaperReply
    \/ Kill
    \/ Tick
    \/ WaitCheck
    \/ WaitSleep
    \/ WaitCleanup

Init == LimInit /\ ParseOff /\ PipeInit /\ FetchOff /\ KeyOff /\ ExtractOff

Spec == Init /\ [][Next]_vars

InitFetch == FetchInit /\ LimInit /\ ParseOff /\ PipeOff /\ KeyOff /\ ExtractOff

SpecFetch == InitFetch /\ [][FetchNext]_vars

InitKey == KeyInit /\ LimInit /\ ParseOff /\ PipeOff /\ FetchOff /\ ExtractOff

SpecKey == InitKey /\ [][KeyNext]_vars

InitExtractor == ExtractInit /\ LimInit /\ ParseOff /\ PipeOff /\ FetchOff /\ KeyOff

SpecExtractor == InitExtractor /\ [][ExtractNext]_vars

(***************************************************************************)
(* Properties of the rate limiter (SpecLimiter).                           *)
(***************************************************************************)
\* the tokens of the samples recorded in the 60 seconds before clock value t
RecentTokens(t) ==
    LET idx60 == {i \in DOMAIN recorded : recorded[i].ts > t - 60}
        sum[S \in SUBSET idx60] ==
            IF S = {} THEN 0
            ELSE LET i == CHOOSE j \in S : TRUE IN recorded[i].count + sum[S \ {i}]
    IN  sum[idx60]

HasRecent(t) == \E i \in DOMAIN recorded : recorded[i].ts > t - 60

\* the call has returned and never slept
ReturnedAtOnce == lpc = "returned" /\ sleeps = 0

\* C5 as stated: _wait_for_rate_limit(x) never returns without suspending when
\* the samples recorded in the trailing 60 seconds plus x exceed
\* tokens_per_minute.
C5_NeverOverBudget ==
    ReturnedAtOnce => RecentTokens(now) + required <= tokens_per_minute

\* C5, amended: when the trailing 60 seconds hold at least one sample,
\* _wait_for_rate_limit(x) never returns without suspending if those samples
\* plus x exceed tokens_per_minute.
C5_NeverOverBudgetNonEmpty ==
    (ReturnedAtOnce /\ HasRecent(now))
        => RecentTokens(now) + required <= tokens_per_minute

\* C5 witness: the samples of the last minute plus x exceed the budget and the
\* call is about to suspend.
C5_Witness ==
    /\ lpc = "sleeping"
    /\ sleeps = 0
    /\ HasRecent(now)
    /\ RecentTokens(now) + required > tokens_per_minute

\* C6: a call of _wait_for_rate_limit that starts on a list with no sample
\* younger than 60 seconds never suspends, whatever it asks for.
C6_EmptyWindowAdmits ==
    (lpc # "idle" /\ ~entryFresh) => (sleeps = 0 /\ lpc \in {"check", "returned"})

\* C6 witness: a request above the whole budget has returned at once; the list
\* held only samples older than 60 seconds when the call began.
C6_Witness ==
    /\ ReturnedAtOnce
    /\ required > tokens_per_minute
    /\ ~entryFresh
    /\ recorded # <<>>

(***************************************************************************)
(* Properties of the parser (SpecParse).                                   *)
(***************************************************************************)
\* the extraction fields a record has set
FieldsSet(r) == {k \in FieldSet : r[k].some}

\* the first n extraction fields, by position
FirstFields(n) == {FieldNames[i] : i \in 1..n}

\* C9 as stated: a record returned by _parse_response has all 15 extraction
\* fields set and no error, or has only filename and error set.
C9_CompleteOrError ==
    ppc = "parsed" =>
        \/ FieldsSet(record) = FieldSet /\ ~record["error"].some
        \/ to_dict(record) = {"filename", "error"}

\* C9, amended: a record returned by _parse_response has no error and has the
\* first n extraction fields set, for some n from 1 to 15, the others unset, or
\* has only filename and error set.
C9_PrefixOrError ==
    ppc = "parsed" =>
        \/ /\ ~record["error"].some
           /\ \E n \in 1..NumFields : FieldsSet(record) = FirstFields(n)
        \/ to_dict(record) = {"filename", "error"}

\* C9 witness: a record without error whose first field is set and whose last
\* field is not.
C9_Witness ==
    /\ ppc = "parsed"
    /\ ~record["error"].some
    /\ record["paper_citation"].some
    /\ ~record["evidence_gaps"].some

\* the response holds one valid row of 15 quoted fields
HasValidRow == inspec.row.n = NumFields /\ inspec.row.style # "bare"

\* the record that holds exactly the fields of the row, in order
RowRecord == PaperMetadata(ParseFile, RowFields(inspec.row), None, Some(ParseQuery))

\* C10 as stated: prose lines with fewer commas than a data row (fewer than 14)
\* around one valid row of 15 quoted fields: the record holds exactly the
\* fields of the row.
C10_RowExtracted ==
    (ppc = "parsed" /\ HasValidRow /\ inspec.pre.k < NumFields - 1)
        => record = RowRecord

\* C10, amended: prose lines with fewer than 10 commas around one valid row of
\* 15 quoted fields that holds neither "research question" nor "csv format":
\* the record holds exactly the fields of the row.
C10_RowExtractedBelowTen ==
    (/\ ppc = "parsed"
     /\ HasValidRow
     /\ ~IsPromptLine(RowLine(inspec.row))
     /\ inspec.pre.k < MinCommas)
        => record = RowRecord

\* C10 witness: a prose line with 9 commas before the row, a prose line after
\* it, fields with commas and quotes inside, and the record is the row.
C10_Witness ==
    /\ ppc = "parsed"
    /\ inspec.row = [n |-> NumFields, style |-> "rich"]
    /\ inspec.pre = [k |-> MinCommas - 1, phrase |-> ""]
    /\ inspec.post = "prose"
    /\ record = RowRecord

(***************************************************************************)
(* Properties of process_directory and process_paper (Spec).               *)
(***************************************************************************)
\* the PDF of the loop iteration that has just ended
LastFile == pdf_files[idx - 1]
LastKey == CacheKey(DocString(Text(LastFile, doc_len[LastFile])), Query)

\* C1: when the last process_paper call of a PDF made one client call and
\* returned, the next process_paper call of the same PDF, same query and same
\* cache makes no client call and returns the record parsed from the cached
\* response.
C1_CacheIdempotence ==
    (lastDone.valid /\ lastDone.prev = 1) =>
        /\ lastDone.calls = 0
        /\ results[Len(results)] =
              parse_response(cache_get(cache, LastKey).val, LastFile, Some(Query))

\* C2: process_paper never goes round its loop again with a text of a token
\* count it has already sent to the client; when a shrink makes no progress it
\* ends instead.
C2_ShrinkMakesProgress ==
    pc = "admit" => count_tokens(current_text) \notin attempts

\* C3: no failure of one PDF ends the batch, and every PDF whose client call
\* failed with a non-overflow failure has a record with its filename and an
\* error among the results.
C3_FailureIsolation ==
    /\ ~(pc = "crashed" /\ pdf_files # <<>>)
    /\ \A f \in failedDocs :
          \E i \in DOMAIN results :
              results[i]["filename"].val = f /\ results[i]["error"].some

C7_WriteOnce ==
    [][\A k \in DOMAIN cache \cap DOMAIN cache' : cache'[k] = cache[k]]_vars

\* C8: the client is never called twice with the same text and query, and it
\* is never called for a PDF whose response is in the cache.
C8_AtMostOnce ==
    /\ ~repeat
    /\ pc = "calling" => FullKey \notin DOMAIN cache

\* the most commas a line of the response holds
MostCommas ==
    LET lines == SplitLines(response)
    IN  CHOOSE m \in {CountCommas(lines[i]) : i \in DOMAIN lines} :
            \A i \in DOMAIN lines : CountCommas(lines[i]) <= m

\* C11 as stated: a response in which no line holds at least 14 commas gives a
\* record with only filename and error.
C11_BelowFourteenFails ==
    (ppc = "parsed" /\ MostCommas < NumFields - 1)
        => to_dict(record) = {"filename", "error"}

\* C11, amended: a response in which no line holds at least 10 commas gives a
\* record with only filename and error, never a record with extraction fields.
C11_BelowTenFails ==
    (ppc = "parsed" /\ MostCommas < MinCommas)
        => /\ to_dict(record) = {"filename", "error"}
           /\ FieldsSet(record) = {}

\* C11 witness: a prose line with 9 commas and a row of 5 quoted fields were
\* both passed over and the record holds only filename and error.
C11_Witness ==
    /\ ppc = "parsed"
    /\ inspec.pre = [k |-> MinCommas - 1, phrase |-> ""]
    /\ inspec.row = [n |-> 5, style |-> "plain"]
    /\ MostCommas = MinCommas - 1
    /\ to_dict(record) = {"filename", "error"}

\* the lines _parse_response looks at
ResponseLines == SplitLines(Strip(response))

\* the lines without a prompt phrase that hold at least n commas
LinesWith(n) ==
    {i \in DOMAIN ResponseLines :
        ~IsPromptLine(ResponseLines[i]) /\ CountCommas(ResponseLines[i]) >= n}

FirstOf(S) == CHOOSE i \in S : \A j \in S : i <= j

\* C12 as stated: for a query of k field names the first line without a prompt
\* phrase that holds at least k-1 commas is selected and its fields are mapped
\* by position onto the k names.
C12_ThresholdFollowsQuery ==
    (ppc = "parsed" /\ LinesWith(inspec.want - 1) # {}) =>
        LET row == CsvRow(ResponseLines[FirstOf(LinesWith(inspec.want - 1))])
        IN  row.ok =>
                /\ ~record["error"].some
                /\ \A j \in 1..inspec.want :
                      j <= Len(row.row) => record[FieldNames[j]] = Some(row.row[j])

\* C12, amended: for every query the first line without a prompt phrase that
\* holds at least 10 commas is selected and its fields are mapped by position
\* onto the 15 fixed names; when no line qualifies the record holds only
\* filename and error.
C12_ThresholdFixed ==
    ppc = "parsed" =>
        IF LinesWith(MinCommas) = {}
        THEN to_dict(record) = {"filename", "error"}
        ELSE LET row == CsvRow(ResponseLines[FirstOf(LinesWith(MinCommas))])
             IN  row.ok =>
                    /\ ~record["error"].some
                    /\ \A j \in 1..NumFields :
                          record[FieldNames[j]] =
                              IF j <= Len(row.row) THEN Some(row.row[j]) ELSE None

\* C12 witness: the query asks for 3 fields, the response is one prose line and
\* a line of three quoted values, and the record holds only filename and error.
C12_Witness ==
    /\ ppc = "parsed"
    /\ inspec.want = 3
    /\ inspec.pre = [k |-> 0, phrase |-> ""]
    /\ inspec.row = [n |-> 3, style |-> "plain"]
    /\ inspec.post = "none"
    /\ to_dict(record) = {"filename", "error"}

\* a step in which the client returned a text to process_paper
GotResponse == pc = "calling" /\ pc' = "loop" /\ token_usage' # token_usage

\* C13: whenever the client returned a text that parses to a row, the row
\* saved for the PDF is the record parsed from that text, also when writing the
\* cache file failed.
C13_SaveFailureKeepsRecord ==
    [][GotResponse =>
          LET parsed == parse_response(cache'[FullKey], CurrentFile, current_query)
          IN  ~parsed["error"].some => store'[Len(store')] = ToRow(parsed)]_vars

\* C14: a process_paper call that made a client call and ended in a parse
\* failure leaves the response in the cache, and process_paper never goes to the
\* client for a text whose cached response fails to parse.
C14_ParseFailureStaysCached ==
    /\ (lastDone.valid /\ lastDone.calls >= 1 /\ results[Len(results)]["error"].some)
          => LastKey \in DOMAIN cache
    /\ pc = "admit" =>
          ~(/\ FullKey \in DOMAIN cache
            /\ parse_response(cache[FullKey], CurrentFile, None)["error"].some)

\* C15: every filename that is a row of the result store is still a row after
\* every step.
C15_StoreKeepsRows ==
    [][\A i \in DOMAIN store : is_processed(store', store[i]["filename"].val)]_vars

\* C16: when the process is ended from outside, every response the cache file
\* held is in the cache the next start loads.
C16_CrashSafeCache ==
    [][pc' = "killed" =>
          \A k \in DOMAIN cache_file.data :
              /\ cache_file'.valid
              /\ k \in DOMAIN cache_file'.data
              /\ cache_file'.data[k] = cache_file.data[k]]_vars

\* a step of the shrink branch of process_paper
ShrinkStep == pc = "calling" /\ pc' = "admit"

\* C17: a shrink step on a text of more than 1000 tokens leaves a text of
\* strictly fewer tokens.
C17_ShrinkDecreases ==
    [][(ShrinkStep /\ count_tokens(current_text) > MinTokens)
          => count_tokens(current_text') < count_tokens(current_text)]_vars

\* C17 witness: two texts were sent and the text about to be sent is shorter
\* than both.
C17_Witness ==
    /\ pc = "admit"
    /\ Cardinality(attempts) >= 2
    /\ \A a \in attempts : count_tokens(current_text) < a

\* a step in which process_paper caches the response to a truncated text
CachesAfterShrink == pc = "calling" /\ lastDone'.valid /\ current_text # FullText

\* C19 as stated: after a shrink the response is stored under the key of the
\* truncated text that was sent.
C19_KeyOfCurrentText ==
    [][CachesAfterShrink => CacheKey(DocString(current_text), Query) \in DOMAIN cache']_vars

\* C19, amended: after a shrink the response is stored under the key of the
\* full text, and no key of a truncated text enters the cache.
C19_KeyOfFullText ==
    [][CachesAfterShrink =>
          /\ DOMAIN cache' = DOMAIN cache \cup {FullKey}
          /\ CacheKey(DocString(current_text), Query) \notin DOMAIN cache']_vars

\* C19 witness: a PDF longer than the service takes was answered on the second call, after
\* one shrink, and the key of its full text is in the cache.
C19_Witness ==
    /\ lastDone.valid
    /\ lastDone.calls = 2
    /\ doc_len[LastFile] > service_limit
    /\ LastKey \in DOMAIN cache

\* the smaller of two numbers, the larger of two numbers
Least(a, b) == IF a < b THEN a ELSE b
Most(a, b) == IF a > b THEN a ELSE b

\* C20 as stated: the shrink truncates to the smaller of 0.8 x the current
\* tokens and what the minute still allows, raised to 1000.
C20_TargetWithinBudget ==
    [][ShrinkStep =>
          LET n == count_tokens(current_text)
              allowed == tokens_per_minute - get_current_token_usage(token_usage, now)
          IN  count_tokens(current_text') =
                  Least(n, Most(MinTokens, Least((n * 4) \div 5, allowed)))]_vars

\* C20, amended: the shrink truncates to 0.8 x the current tokens raised to
\* 1000, whatever the minute still allows.
C20_TargetIsRatio ==
    [][ShrinkStep =>
          LET n == count_tokens(current_text)
          IN  count_tokens(current_text') = Least(n, Most(MinTokens, (n * 4) \div 5))]_vars

\* C20 witness: after one shrink the text holds 0.8 x 30000 tokens, more than
\* a whole minute allows.
C20_Witness ==
    /\ pc = "admit"
    /\ attempts = {30000}
    /\ count_tokens(current_text) = 24000
    /\ tokens_per_minute - get_current_token_usage(token_usage, now) < 24000

\* the query sets main has gone through
QueriesDone == {query_sets[i] : i \in 1..(qi - 1)}

\* C18: with --force-refresh every query set main has gone through had at
\* least one page request, also when a result file for it existed.
C18_ForceRefreshFetches ==
    force_refresh => \A q \in QueriesDone : page_requests[q] >= 1

\* a step of one process_directory call, from start to end
Running == {"loop", "start", "admit", "waiting", "calling"}
InProcess == pc \in Running /\ pc' \in Running

\* the step in which llm_client.process_text returns or raises
ClientReplies == pc = "calling" /\ pc' # "calling"

\* token_usage after _record_token_usage(total_tokens)
IsRecord ==
    token_usage' =
        Append(token_usage, [ts |-> now, count |-> TotalTokens(current_text)])

\* token_usage after _cleanup_old_usage
IsPrune == token_usage' = cleanup_old_usage(token_usage, now)

\* the record of a PDF whose client call raised
ClientFailed(rec) == rec["error"].some /\ rec["error"].val \in ErrorMessages

\* C21 as stated: within a run the usage list changes only by
\* _record_token_usage, and every reply of the client, a text or an exception,
\* is followed by one _record_token_usage.
C21_RecordPerAdmittedCall ==
    [][InProcess =>
          /\ token_usage' # token_usage => IsRecord
          /\ ClientReplies => IsRecord]_vars

\* C21, amended: within a run the usage list changes only by
\* _record_token_usage and by the pruning of _cleanup_old_usage, and a reply of
\* the client is followed by _record_token_usage exactly when it is a text.
C21_RecordPerReturnedText ==
    [][InProcess =>
          /\ token_usage' # token_usage => (IsRecord \/ IsPrune)
          /\ ClientReplies =>
                (IsRecord <=>
                    (pc' = "loop" /\ ~ClientFailed(results'[Len(results')])))]_vars

\* C21 witness: the first call of the run was admitted and refused for its
\* length, and the usage list is still empty.
C21_Witness ==
    /\ pc = "admit"
    /\ idx = 1
    /\ attempts # {}
    /\ token_usage = <<>>

\* the step in which the sleep of _wait_for_rate_limit ends
SleepEnds == lpc = "sleeping" /\ lpc' = "woke"

\* C22 as stated: the sleep lasts the time until the oldest sample of the list
\* is 60 seconds old, or that and one reading of the clock more.
C22_SleepsUntilOldestExpires ==
    [][SleepEnds =>
          \E d \in {0, TickStep} :
              now' = now + UntilOldestExpires(token_usage, now) + d]_vars

\* C22, amended: the sleep lasts 60 seconds, or that and one reading of the
\* clock more, whatever the age of the oldest sample; the list is pruned next
\* and the loop goes back to its head.
C22_SleepsSixtySeconds ==
    [][/\ SleepEnds => \E d \in {0, TickStep} : now' = now + wait_time + d
       /\ (lpc = "woke" /\ lpc' # "woke") =>
              lpc' = "check" /\ token_usage' = cleanup_old_usage(token_usage, now)]_vars

\* C22 witness: the call was refused, slept, and at the end of the sleep the
\* oldest sample is older than 60 seconds and one reading of the clock.
C22_Witness ==
    /\ lpc = "woke"
    /\ sleeps = 1
    /\ token_usage # <<>>
    /\ now - Head(token_usage).ts > wait_time + TickStep

\* the step in which the loop of _wait_for_rate_limit decides
Decides == lpc = "check" /\ lpc' # "check"

\* C23: every decision of _wait_for_rate_limit is the one the samples younger
\* than 60 seconds give, and the list it leaves holds no sample that is 60
\* seconds old or older.
C23_DecidesOnPrunedWindow ==
    [][Decides =>
          /\ \A i \in DOMAIN token_usage' : token_usage'[i].ts > now - WindowSeconds
          /\ lpc' = "returned" <=>
                (RecentTokens(now) + required <= tokens_per_minute \/ ~HasRecent(now))]_vars

\* C23 witness: a call was admitted on a list that still holds a young sample
\* and from which an old one has been removed.
C23_Witness ==
    /\ lpc = "returned"
    /\ token_usage # <<>>
    /\ Len(recorded) > Len(token_usage)
    /\ RecentTokens(now) + required <= tokens_per_minute
    /\ SumCounts(recorded) + required > tokens_per_minute

\* C24: a selected line that parses to n < 15 fields gives a record without
\* error whose first n fields are the values in order and whose other fields
\* are unset; a response without a qualifying line gives a record of filename
\* and error only; no exception leaves _parse_response.
C24_ShortRowsMapByPosition ==
    ppc = "parsed" =>
        /\ record["filename"] = Some(ParseFile)
        /\ RaisedInParse(response) \in ParseCaught \cup {""}
        /\ IF LinesWith(MinCommas) = {}
           THEN /\ record["error"] = Some(NoCsvLineMsg)
                /\ to_dict(record) = {"filename", "error"}
           ELSE LET row == CsvRow(ResponseLines[FirstOf(LinesWith(MinCommas))])
                    n == Len(row.row)
                IN  (row.ok /\ n < NumFields) =>
                        /\ ~record["error"].some
                        /\ FieldsSet(record) = FirstFields(n)
                        /\ \A j \in 1..n : record[FieldNames[j]].val = row.row[j]
        /\ (/\ inspec.row # NoRow
            /\ inspec.row.style \in {"plain", "rich"}
            /\ inspec.row.n < NumFields
            /\ CountCommas(RowLine(inspec.row)) >= MinCommas
            /\ inspec.pre.k < MinCommas)
              => record = RowRecord

\* C24 witness: the response holds a row of 12 quoted fields, and the record
\* has no error, its first 12 fields set and its last 3 unset.
C24_Witness ==
    /\ ppc = "parsed"
    /\ inspec.row = [n |-> NumFields - 3, style |-> "plain"]
    /\ ~record["error"].some
    /\ FieldsSet(record) = FirstFields(NumFields - 3)
    /\ record = RowRecord

\* the step in which process_paper goes into llm_client.process_text
ClientCalled == pc # "calling" /\ pc' = "calling"

\* C25: every client call follows a _wait_for_rate_limit that has returned and
\* that was asked for the tokens of the text that is sent, of the prompt and of
\* the query; the wait is entered from the head of the loop with that count.
C25_AdmitPrecedesCall ==
    [][/\ ClientCalled =>
             /\ pc = "waiting"
             /\ lpc = "returned"
             /\ current_text' = current_text
             /\ required = count_tokens(current_text') + prompt_tokens + QueryTokens
       /\ (pc = "admit" /\ pc' \in Running \ {"admit"}) =>
             /\ pc' = "waiting"
             /\ required' = count_tokens(current_text) + prompt_tokens + QueryTokens]_vars

\* C25 witness: the client is called a second time for one PDF, with a text
\* shorter than the PDF's.
C25_Witness ==
    /\ pc = "calling"
    /\ lpc = "idle"
    /\ Cardinality(attempts) >= 2
    /\ count_tokens(current_text) < doc_len[CurrentFile]

\* C27: the second call finds the response of the first exactly when its text
\* followed by its query is the string the first call's text followed by its
\* query is, also when the two texts and the two queries differ.
C27_KeyOfConcatenation ==
    kpc = "done" =>
        /\ Truthy(second_hit) <=>
              first_call.text \o first_call.query = second_call.text \o second_call.query
        /\ first_call = second_call => Truthy(second_hit)

\* C27 witness: two calls with different texts and different queries, and the
\* second was given the response of the first.
C27_Witness ==
    /\ kpc = "done"
    /\ first_call.text # second_call.text
    /\ first_call.query # second_call.query
    /\ second_hit = Some(KeyResponse)

\* C28: a call of _wait_for_rate_limit sleeps at most once: the decision taken
\* after a sleep is to return, whatever the list held and whatever was asked.
C28_AtMostOneSleep ==
    [][/\ sleeps' <= 1
       /\ (Decides /\ sleeps >= 1) => lpc' = "returned"]_vars

\* C28 witness: a call that found several samples in the list has slept once
\* and has returned, on an empty list.
C28_Witness ==
    /\ lpc = "returned"
    /\ sleeps = 1
    /\ Len(recorded) >= 2
    /\ token_usage = <<>>

\* C29: under process_paper, which records the count it waited for, the samples
\* younger than 60 seconds sum to more than tokens_per_minute only when they
\* are one sample, and that sample was recorded on a list that was empty when
\* its call was admitted.
C29_WindowSum ==
    [][/\ LET window == cleanup_old_usage(token_usage', now')
          IN  SumCounts(window) > tokens_per_minute => Len(window) = 1
       /\ (InProcess /\ IsRecord /\ SumCounts(token_usage') > tokens_per_minute)
              => token_usage = <<>>]_vars

\* C29 witness: the list holds one sample younger than 60 seconds, of more
\* than tokens_per_minute tokens, and the loop has gone on.
C29_Witness ==
    /\ pc = "loop"
    /\ Len(cleanup_old_usage(token_usage, now)) = 1
    /\ SumCounts(cleanup_old_usage(token_usage, now)) > tokens_per_minute

\* process_paper is at its cache check and the cache holds a non-empty
\* response under the key of the full text
HitAtStart == pc = "start" /\ FullKey \in DOMAIN cache /\ cache[FullKey] # <<>>

\* C30: a process_paper call that finds a non-empty cached response returns the
\* record parsed from it; it enters neither _wait_for_rate_limit nor the
\* client, and leaves the usage list, the cache and the cache file as they are.
C30_CacheHitFrame ==
    [][(HitAtStart /\ pc' \notin {"start", "killed"}) =>
          /\ pc' = "loop"
          /\ results' = Append(results, parse_response(cache[FullKey], CurrentFile, Some(Query)))
          /\ token_usage' = token_usage
          /\ lpc' = lpc
          /\ called' = called
          /\ cache' = cache
          /\ cache_file' = cache_file]_vars

\* C30 witness: process_paper has returned without a client call, after usage
\* was recorded in this run, and the PDF's response is in the cache.
C30_Witness ==
    /\ pc = "loop"
    /\ lastDone.valid
    /\ lastDone.calls = 0
    /\ token_usage # <<>>
    /\ LastKey \in DOMAIN cache

\* the step in which process_with_claude returns or raises
XReplies == xpc = "calling" /\ xpc' # "calling"

\* the step in which process_with_claude is entered
XCalls == xpc = "loop" /\ xpc' = "calling"

\* C26 as stated: every process_with_claude call, returning or raising, is
\* followed by the 60-second sleep, and a call made after another in one run
\* is made after such a sleep.
C26_SleepAfterEveryCall ==
    [][/\ XReplies => xpc' = "sleeping"
       /\ (XCalls /\ x_last # "none") => x_slept]_vars

\* C26, amended: the 60-second sleep follows a process_with_claude call exactly
\* when the call returned and the cache file was written; a call made after
\* such a call is made after the sleep, and a call that raised, or whose cache
\* write raised, is followed by an error row and no sleep.
C26_SleepAfterReturnedCall ==
    [][/\ XReplies =>
             IF x_last' = "returned"
             THEN xpc' = "sleeping"
             ELSE /\ xpc' = "loop"
                  /\ x_results' = Append(x_results, RowOf(XFile, TRUE))
       /\ (XCalls /\ x_last = "returned") => x_slept
       /\ (xpc = "sleeping" /\ xpc' # "sleeping") => x_slept']_vars

\* C26 witness: process_with_claude is called for the second PDF right after
\* the call for the first raised, with no sleep between the two.
C26_Witness ==
    /\ xpc = "calling"
    /\ x_last = "raised"
    /\ ~x_slept
    /\ x_idx = 2

====
